---- MODULE Spec2Model ----
(***************************************************************************)
(* Model of the ClawCombat nanobot fleet scheduler                         *)
(* (bots/nanobot-fleet/railway/scheduler.py) and of the fleet set-up       *)
(* script (bots/nanobot-fleet/fleet-manager.py).                           *)
(*                                                                         *)
(* One scheduler process runs main(): it resolves the LLM provider, loads  *)
(* the manifest, registers bots until BOT_COUNT is reached or a            *)
(* registration fails, and then cycles over the bots for ever.  The        *)
(* process can be killed at any point and started again; the manifest      *)
(* file is what survives.  Time is the wall clock in seconds.              *)
(*                                                                         *)
(* The set-up script is a program of its own, with its own manifest file:  *)
(* it registers the bots len(manifest['bots']) .. FLEET_SIZE - 1 and can   *)
(* be run again after it ended or was interrupted.                         *)
(***************************************************************************)
EXTENDS Integers, Sequences, FiniteSets, TLC

(* ------------------------------ bounds -------------------------------- *)
\* Target fleet size (BOT_COUNT is read from the environment).
BOT_COUNT == 2
\* Battle cycles started, over all runs of the process.
MaxCycles == 2
\* Times the process is started again after it stopped.
MaxRestarts == 1
\* Agents the remote service creates, over all runs.
MaxRemote == 3
\* Calls of run_bot_battle, over all runs.
MaxBattles == 2
\* Seconds a battle takes when nanobot exits by itself.
FastBattle == 20
\* Extra seconds a time.sleep(600) may last (a suspended process); with the
\* 5 s after a battle, 600 + 2695 s brings the next visit to exactly 55 minutes.
Oversleep == 2695
\* Seconds between the process stopping and its next start.
Downtime == 30
\* Fleet size of the set-up script (FLEET_SIZE is 100 in fleet-manager.py).
FLEET_SIZE == 3
\* Times the set-up script is run again.
MaxFleetRuns == 2

(* ------------------------- program constants -------------------------- *)
COOLDOWN == 55 * 60
CYCLE_SLEEP == 600
BOT_DELAY == 5
REG_SLEEP == 1
BATTLE_TIMEOUT == 300
DAY == 24 * 60 * 60

\* Python's None / JSON null, for a value that is otherwise a tuple.
None == <<>>

\* "No time": a battle that never took place.
Never == 0 - 1

(* ---------------------------- timestamps ------------------------------ *)
\* datetime.now().isoformat(): the date and the time of day.
isoformat(t) == <<t \div DAY, t % DAY>>

\* datetime.fromisoformat(s)
fromisoformat(s) == s[1] * DAY + s[2]

(* ----------------------------- variables ------------------------------ *)
VARIABLES
    pc,            \* where main() is, or how the process stopped
    llm_key,       \* whether DEEPSEEK_API_KEY or OPENROUTER_API_KEY is set
    manifest,      \* main's manifest: [bots, created]
    disk,          \* MANIFEST_FILE: missing, a JSON document, or a torn write
    now,           \* the wall clock, in seconds
    cur,           \* position of the for loop over manifest['bots'] (1-based)
    resp,          \* the status response check_rate_limit got for bots[cur]
    skip,          \* why the bot visited last in this cycle was skipped
    ret,           \* what run_bot_battle returned for bots[cur]
    cycles,        \* battle cycles started so far (all runs)
    run,           \* number of restarts so far
    remote,        \* agents the remote service has created so far
    reg_log,       \* indices register_bot was called with in this run
    reg_failed,    \* a register_bot call of this run returned None
    loaded,        \* len(manifest['bots']) right after load_manifest
    tried,         \* positions passed to run_bot_battle in this cycle
    done_at,       \* agent_id -> time its last battle exited 0 (Never: none)
    done_run,      \* agent_id -> run in which that battle took place
    durable,       \* agent_ids whose last exit-0 battle was saved afterwards
    attempts,      \* calls of run_bot_battle so far (all runs)
    last_out,      \* how the last run_bot_battle call ended ("none" before)
    raised_by,     \* what raised the exception that ended the process ("none")
    remaining,     \* fights the last status response of this cycle reported
    visits,        \* positions the for loop has checked in this cycle, in order
    fm_pc,         \* fleet-manager.py: where its main() is, or how it stopped
    fm_manifest,   \* fleet-manager.py: main's manifest['bots']
    fm_disk,       \* fleet-manager.py: fleet-manifest.json
    fm_i,          \* fleet-manager.py: the loop variable i
    fm_run         \* fleet-manager.py: times the script was run again

vars == <<pc, llm_key, manifest, disk, now, cur, resp, skip, ret, cycles, run, remote,
          reg_log, reg_failed, loaded, tried, done_at, done_run, durable,
          attempts, last_out, raised_by, remaining, visits>>

\* The variables of fleet-manager.py.
fleet == <<fm_pc, fm_manifest, fm_disk, fm_i, fm_run>>

Stopped == {"exited", "raised", "killed"}

AgentIds == 1..(MaxRemote + 1)

NoDoc == [bots |-> <<>>, created |-> None]

Missing == [kind |-> "missing", doc |-> NoDoc]

Torn == [kind |-> "torn", doc |-> NoDoc]

File(doc) == [kind |-> "file", doc |-> doc]

(* --------------------------- load_manifest ---------------------------- *)
\* json.load raises on a torn file; the exception leaves main.
load_raises(d) == d.kind = "torn"

load_manifest(d, t) ==
    IF d.kind = "file" THEN d.doc
    ELSE [bots |-> <<>>, created |-> isoformat(t)]

(* ---------------------------- register_bot ---------------------------- *)
\* What one POST /agents/register can end as:
\*   created  - 2xx with data: the agent exists and the client knows it
\*   refused  - error status or no connection: nothing was created
\*   no_data  - 2xx without 'data': nothing usable came back
\*   lost     - the agent was created, the response never arrived (timeout)
RegOutcomes == {"created", "refused", "no_data", "lost"}

RemoteCreates(o) == o \in {"created", "lost"}

\* Variant: the indices are counted from one.
register_bot_one_based(bot_index, o, id) ==
    IF o = "created"
    THEN << [index |-> bot_index + 1, agent_id |-> id, api_key |-> id,
             last_battle |-> None, battles |-> 0] >>
    ELSE None

\* The result is <<bot>>, or None (the empty tuple) when registration failed.
register_bot(bot_index, o, id) ==
    IF o = "created"
    THEN << [index |-> bot_index, agent_id |-> id, api_key |-> id,
             last_battle |-> None, battles |-> 0] >>
    ELSE None

\* Variant: a failed registration ends the process, sys.exit(1).
after_failed_registration_exit == "exited"

\* Variant: `continue` instead of `break`, the loop tries the slot again.
after_failed_registration_retry == "boot"

\* main: where the registration loop goes when register_bot returned None
\* (`break`: on to the battle loop).
after_failed_registration == "cycle"

(* -------------------------- check_rate_limit -------------------------- *)
\* A status response: exc (the request raised), ok (2xx), has_data ('data' is
\* in the body), has_fights ('fights_remaining' is in data), fights_remaining.
RateResponse(exc, ok, has_data, has_fights, n) ==
    [exc |-> exc, ok |-> ok, has_data |-> has_data, has_fights |-> has_fights,
     fights_remaining |-> n]

RateResponses ==
    { RateResponse(TRUE, FALSE, FALSE, FALSE, 0),
      RateResponse(FALSE, FALSE, FALSE, FALSE, 0),
      RateResponse(FALSE, TRUE, FALSE, FALSE, 0),
      RateResponse(FALSE, TRUE, TRUE, FALSE, 0),
      RateResponse(FALSE, TRUE, TRUE, TRUE, 0),
      RateResponse(FALSE, TRUE, TRUE, TRUE, 1) }

\* No request made yet for the bot at hand.
NoResp == RateResponse(FALSE, FALSE, FALSE, FALSE, 0)

\* The fights remaining that a status response reports; a request that
\* failed, or a body without the number, reports none.
FightsReported(r) ==
    IF ~r.exc /\ r.ok /\ r.has_data /\ r.has_fights THEN r.fights_remaining ELSE 0

\* Variant: a bot needs more than one fight left.
check_rate_limit_strict(r) ==
    IF r.exc THEN FALSE
    ELSE IF r.ok /\ r.has_data
         THEN (IF r.has_fights THEN r.fights_remaining ELSE 0) > 1
         ELSE FALSE

\* Variant: a missing 'fights_remaining' counts as one fight left, and a
\* failed request as permission.
check_rate_limit_lenient(r) ==
    IF r.exc THEN TRUE
    ELSE IF r.ok /\ r.has_data
         THEN (IF r.has_fights THEN r.fights_remaining ELSE 1) > 0
         ELSE FALSE

check_rate_limit(r) ==
    IF r.exc THEN FALSE
    ELSE IF r.ok /\ r.has_data
         THEN (IF r.has_fights THEN r.fights_remaining ELSE 0) > 0
         ELSE FALSE

(* ------------------------- the cool-down check ------------------------ *)
\* Variant: the interval given in seconds, timedelta(seconds=55).
battled_recently_seconds(bot, t) ==
    IF bot.last_battle # None
    THEN t - fromisoformat(bot.last_battle) < 55
    ELSE FALSE

\* Variant: no cool-down check, the remote rate limit alone decides.
battled_recently_never(bot, t) == FALSE

\* main: `if bot.get('last_battle')` and the timedelta(minutes=55) comparison.
battled_recently(bot, t) ==
    IF bot.last_battle # None
    THEN t - fromisoformat(bot.last_battle) < COOLDOWN
    ELSE FALSE

(* --------------------------- run_bot_battle --------------------------- *)
\* What one call can end as:
\*   config_error - writing /tmp/bot-N-config.json raised (outside the try)
\*   exit0        - nanobot exited with status 0
\*   nonzero      - nanobot exited with another status
\*   timeout      - subprocess.TimeoutExpired after 300 s
\*   spawn_error  - subprocess.run raised something else (nanobot missing,
\*                  output that does not decode)
BattleOutcomes == {"config_error", "exit0", "nonzero", "timeout", "spawn_error"}

\* Seconds until subprocess.run returns or raises.
battle_time(o) ==
    CASE o = "timeout" -> BATTLE_TIMEOUT
      [] o = "config_error" -> 0
      [] OTHER -> FastBattle

battle_returns(o) == o = "exit0"

\* Variant: the counter is rewritten without the + 1.
battle_record_no_increment(bot, o, t) ==
    IF o = "exit0"
    THEN [bot EXCEPT !.last_battle = isoformat(t)]
    ELSE bot

\* Variant: the counter alone is updated, last_battle is left as it was.
battle_record_count_only(bot, o, t) ==
    IF o = "exit0"
    THEN [bot EXCEPT !.battles = bot.battles + 1]
    ELSE bot

\* Variant: the record is updated whatever the exit status.
battle_record_always(bot, o, t) ==
    [bot EXCEPT !.last_battle = isoformat(t), !.battles = bot.battles + 1]

\* run_bot_battle: what it leaves in the bot's record.
battle_record(bot, o, t) ==
    IF o = "exit0"
    THEN [bot EXCEPT !.last_battle = isoformat(t), !.battles = bot.battles + 1]
    ELSE bot

(* --------------------------- get_llm_config --------------------------- *)
\* Variant: a placeholder key stands in for a missing one (as YOUR_KEY_HERE
\* does in fleet-manager.py) and main goes on.
after_llm_config_placeholder(key) == "load"

\* main: get_llm_config() returns a provider when a key is set; without one
\* it logs the error and calls sys.exit(1).
after_llm_config(key) == IF key THEN "load" ELSE "exited"

(* ---------------------------- save_manifest --------------------------- *)
\* Variant: the write is wrapped in try/except, the error is logged and main
\* goes on.
save_failed_pc_swallowed(p) ==
    IF p \in {"boot_save", "boot_write"} THEN "boot" ELSE "cycle"

\* save_manifest has no handler and neither has main: an error of open() or
\* json.dump leaves main.
save_failed_pc(p) == "raised"

(* ------------------------ main: after a battle ------------------------ *)
\* Variant: the save is left to a later moment, main goes to the sleep.
after_battle_no_save(r) == "delay"

\* Variant: `continue` when run_bot_battle returned False.
after_battle_continue(r) == IF r THEN "battle_save" ELSE "gate"

\* main: `if run_bot_battle(...)`: save_manifest, then time.sleep(5); the
\* sleep alone when it returned False.
after_battle(r) == IF r THEN "battle_save" ELSE "delay"

(* ------------------------------- Init --------------------------------- *)
\* fleet-manager.py has not been started.
FleetIdle ==
    /\ fm_pc = "start"
    /\ fm_manifest = <<>>
    /\ fm_disk = [kind |-> "missing", bots |-> <<>>]
    /\ fm_i = 0
    /\ fm_run = 0

Init ==
    /\ pc = "start"
    /\ llm_key \in BOOLEAN
    /\ manifest = NoDoc
    /\ disk = Missing
    /\ now = 0
    /\ cur = 0
    /\ resp = NoResp
    /\ skip = "none"
    /\ ret = FALSE
    /\ cycles = 0
    /\ run = 0
    /\ remote = 0
    /\ reg_log = <<>>
    /\ reg_failed = FALSE
    /\ loaded = 0
    /\ tried = {}
    /\ done_at = [a \in AgentIds |-> Never]
    /\ done_run = [a \in AgentIds |-> 0]
    /\ durable = {}
    /\ attempts = 0
    /\ last_out = "none"
    /\ raised_by = "none"
    /\ remaining = 0
    /\ visits = <<>>
    /\ FleetIdle

(* ------------------------------ helpers ------------------------------- *)
bots == manifest.bots

\* The for loop moves on to the next bot, or the cycle is over.
NextBot ==
    /\ cur' = cur + 1
    /\ pc' = IF cur + 1 > Len(bots) THEN "cycle_sleep" ELSE "gate"

ghosts == <<attempts, remote, reg_log, reg_failed, loaded, done_at, done_run, durable>>

\* The memory of a process that has stopped is gone.
Forget ==
    /\ manifest' = NoDoc
    /\ cur' = 0
    /\ resp' = NoResp
    /\ ret' = FALSE
    /\ skip' = "none"
    /\ last_out' = "none"
    /\ tried' = {}
    /\ remaining' = 0
    /\ visits' = <<>>

\* An exception leaves main(): the traceback is printed and the process ends.
Raise(e) ==
    /\ pc' = "raised"
    /\ raised_by' = e
    /\ Forget

(* ------------------------------ actions ------------------------------- *)
\* main: llm_config = get_llm_config(); sys.exit(1) without a key.
GetLlmConfig ==
    /\ pc = "start"
    /\ pc' = after_llm_config(llm_key)
    /\ UNCHANGED <<llm_key, manifest, disk, now, cur, resp, skip, ret, cycles, run,
                   last_out, tried, raised_by, remaining, visits, ghosts>>
    /\ UNCHANGED fleet

\* main: manifest = load_manifest()
LoadManifest ==
    /\ pc = "load"
    /\ IF load_raises(disk)
       THEN /\ Raise("load")
            /\ UNCHANGED loaded
       ELSE /\ pc' = "boot"
            /\ manifest' = load_manifest(disk, now)
            /\ loaded' = Len(manifest'.bots)
            /\ UNCHANGED <<cur, resp, skip, ret, last_out, tried, raised_by, remaining,
                           visits>>
    /\ UNCHANGED <<llm_key, disk, now, cycles, run, attempts, remote, reg_log,
                   reg_failed, done_at, done_run, durable>>
    /\ UNCHANGED fleet

\* main: one turn of `while len(manifest['bots']) < BOT_COUNT`, up to the
\* append; the loop ends when the fleet is complete or register_bot failed.
RegisterBot ==
    /\ pc = "boot"
    /\ IF Len(bots) < BOT_COUNT
       THEN \E o \in RegOutcomes :
              LET bot == register_bot(Len(bots), o, remote + 1) IN
              /\ RemoteCreates(o) => remote < MaxRemote
              /\ remote' = IF RemoteCreates(o) THEN remote + 1 ELSE remote
              /\ reg_log' = Append(reg_log, Len(bots))
              /\ IF bot # None
                 THEN /\ manifest' = [manifest EXCEPT !.bots = bots \o bot]
                      /\ pc' = "boot_save"
                      /\ UNCHANGED reg_failed
                 ELSE /\ reg_failed' = TRUE
                      /\ pc' = after_failed_registration
                      /\ UNCHANGED manifest
       ELSE /\ pc' = "cycle"
            /\ UNCHANGED <<manifest, remote, reg_log, reg_failed>>
    /\ UNCHANGED <<llm_key, disk, now, cur, resp, skip, ret, cycles, run, last_out,
                   tried, attempts, loaded, done_at, done_run, durable, raised_by,
                   remaining, visits>>
    /\ UNCHANGED fleet

\* save_manifest: open(MANIFEST_FILE, 'w') truncates the file (or raises).
SaveOpen ==
    /\ pc \in {"boot_save", "battle_save"}
    /\ \/ /\ disk' = Torn
          /\ pc' = IF pc = "boot_save" THEN "boot_write" ELSE "battle_write"
          /\ UNCHANGED <<manifest, cur, resp, skip, ret, last_out, tried, raised_by,
                         remaining, visits>>
       \/ /\ pc' = save_failed_pc(pc)
          /\ raised_by' = "save"
          /\ Forget
          /\ UNCHANGED disk
    /\ UNCHANGED <<llm_key, now, cycles, run, ghosts>>
    /\ UNCHANGED fleet

\* save_manifest: json.dump writes the document and the file is closed (or
\* the write raises and the file stays torn).
SaveWrite ==
    /\ pc \in {"boot_write", "battle_write"}
    /\ \/ /\ disk' = File(manifest)
          /\ pc' = IF pc = "boot_write" THEN "boot_sleep" ELSE "delay"
          /\ durable' = IF pc = "battle_write"
                        THEN durable \cup {bots[cur].agent_id}
                        ELSE durable
          /\ UNCHANGED <<manifest, cur, resp, skip, ret, last_out, tried, raised_by,
                         remaining, visits>>
       \/ /\ pc' = save_failed_pc(pc)
          /\ raised_by' = "save"
          /\ Forget
          /\ UNCHANGED <<disk, durable>>
    /\ UNCHANGED <<llm_key, now, cycles, run, attempts, remote, reg_log, reg_failed,
                   loaded, done_at, done_run>>
    /\ UNCHANGED fleet

\* main: time.sleep(1) after a registration.
RegSleep ==
    /\ pc = "boot_sleep"
    /\ now' = now + REG_SLEEP
    /\ pc' = "boot"
    /\ UNCHANGED <<llm_key, manifest, disk, cur, resp, skip, ret, cycles, run,
                   last_out, tried, raised_by, remaining, visits, ghosts>>
    /\ UNCHANGED fleet

\* main: a turn of `while True` begins; the for loop starts at the first bot.
StartCycle ==
    /\ pc = "cycle"
    /\ cycles < MaxCycles
    /\ cycles' = cycles + 1
    /\ cur' = 1
    /\ tried' = {}
    /\ skip' = "none"
    /\ remaining' = 0
    /\ visits' = <<>>
    /\ pc' = IF Len(bots) = 0 THEN "cycle_sleep" ELSE "gate"
    /\ UNCHANGED <<llm_key, manifest, disk, now, resp, ret, run, last_out, raised_by,
                   ghosts>>
    /\ UNCHANGED fleet

\* main: the two checks on bots[cur]; `continue` when either says no.
VisitBot ==
    /\ pc = "gate"
    /\ \E r \in RateResponses :
         /\ remaining' = FightsReported(r)
         /\ IF ~check_rate_limit(r)
            THEN /\ NextBot
                 /\ skip' = "rate_limited"
                 /\ UNCHANGED resp
            ELSE IF battled_recently(bots[cur], now)
                 THEN /\ NextBot
                      /\ skip' = "recently"
                      /\ UNCHANGED resp
                 ELSE /\ attempts < MaxBattles
                      /\ pc' = "run"
                      /\ resp' = r
                      /\ skip' = "none"
                      /\ UNCHANGED cur
    /\ visits' = Append(visits, cur)
    /\ UNCHANGED <<llm_key, manifest, disk, now, ret, cycles, run, last_out, tried,
                   raised_by, ghosts>>
    /\ UNCHANGED fleet

\* run_bot_battle(bots[cur], llm_config)
RunBattle ==
    /\ pc = "run"
    /\ \E o \in BattleOutcomes :
         LET t == now + battle_time(o)
             aid == bots[cur].agent_id
         IN
         /\ attempts' = attempts + 1
         /\ IF o = "config_error"
            THEN /\ Raise("config")
                 /\ UNCHANGED <<now, done_at, done_run, durable>>
            ELSE /\ now' = t
                 /\ last_out' = o
                 /\ tried' = tried \cup {cur}
                 /\ manifest' = [manifest EXCEPT
                                   !.bots[cur] = battle_record(bots[cur], o, t)]
                 /\ ret' = battle_returns(o)
                 /\ pc' = after_battle(ret')
                 /\ IF o = "exit0"
                    THEN /\ done_at' = [done_at EXCEPT ![aid] = t]
                         /\ done_run' = [done_run EXCEPT ![aid] = run]
                         /\ durable' = durable \ {aid}
                    ELSE UNCHANGED <<done_at, done_run, durable>>
                 /\ UNCHANGED <<cur, resp, skip, raised_by, remaining, visits>>
    /\ UNCHANGED <<llm_key, disk, cycles, run, remote, reg_log, reg_failed, loaded>>
    /\ UNCHANGED fleet

\* main: time.sleep(5) after a battle attempt, then the next bot.
BotDelay ==
    /\ pc = "delay"
    /\ now' = now + BOT_DELAY
    /\ NextBot
    /\ resp' = NoResp
    /\ ret' = FALSE
    /\ last_out' = "none"
    /\ remaining' = 0
    /\ UNCHANGED <<llm_key, manifest, disk, skip, cycles, run, tried, raised_by, visits,
                   ghosts>>
    /\ UNCHANGED fleet

\* main: time.sleep(600) at the end of a cycle.
CycleSleep ==
    /\ pc = "cycle_sleep"
    /\ \E extra \in {0, Oversleep} : now' = now + CYCLE_SLEEP + extra
    /\ pc' = "cycle"
    /\ skip' = "none"
    /\ remaining' = 0
    /\ UNCHANGED <<llm_key, manifest, disk, cur, resp, ret, cycles, run, last_out,
                   tried, raised_by, visits, ghosts>>
    /\ UNCHANGED fleet

\* The process is killed from outside (container stopped, host rebooted),
\* wherever main() is.  Kills are bounded together with the restarts that
\* follow them.
Crash ==
    /\ pc \notin Stopped
    /\ run < MaxRestarts
    /\ pc' = "killed"
    /\ Forget
    /\ UNCHANGED <<llm_key, disk, now, cycles, run, raised_by, ghosts>>
    /\ UNCHANGED fleet

\* The process is started again; the environment may have been edited in
\* between.  Only MANIFEST_FILE and the clock carry over.
Restart ==
    /\ pc \in Stopped
    /\ run < MaxRestarts
    /\ run' = run + 1
    /\ pc' = "start"
    /\ llm_key' \in BOOLEAN
    /\ now' = now + Downtime
    /\ Forget
    /\ raised_by' = "none"
    /\ reg_log' = <<>>
    /\ reg_failed' = FALSE
    /\ loaded' = 0
    /\ UNCHANGED <<disk, cycles, attempts, remote, done_at, done_run, durable>>
    /\ UNCHANGED fleet

Next ==
    \/ GetLlmConfig
    \/ LoadManifest
    \/ RegisterBot
    \/ SaveOpen
    \/ SaveWrite
    \/ RegSleep
    \/ StartCycle
    \/ VisitBot
    \/ RunBattle
    \/ BotDelay
    \/ CycleSleep
    \/ Crash
    \/ Restart

Spec == Init /\ [][Next]_<<vars, fleet>>

\* The statements of main(): a process that is not killed executes its next
\* statement, and every remote call and every battle returns (requests carry
\* a timeout, subprocess.run a timeout of 300 s).
Running ==
    \/ GetLlmConfig
    \/ LoadManifest
    \/ RegisterBot
    \/ SaveOpen
    \/ SaveWrite
    \/ RegSleep
    \/ StartCycle
    \/ VisitBot
    \/ RunBattle
    \/ BotDelay
    \/ CycleSleep

SpecLive == Spec /\ WF_<<vars, fleet>>(Running)

(* ------------------- fleet-manager.py: main() ------------------------- *)
\* A bot of the set-up script's manifest.  Its name and personality follow
\* from the id, and its agent_id is whatever the service handed out.
FleetBot(i) == [id |-> i]

\* What one turn of `for i in range(len(manifest['bots']), FLEET_SIZE)` can
\* end as:
\*   ok          - registered, directory written, appended, manifest saved
\*   failed      - register_bot_on_clawcombat or setup_bot_directory raised
\*   save_failed - appended, then open(manifest_path, "w") raised
\*   killed      - appended, then the script was interrupted inside json.dump
\* Every exception is caught in the loop, which goes on with the next i.
FleetOutcomes == {"ok", "failed", "save_failed", "killed"}

\* main: the manifest is read when the file exists; json.load raises on a
\* torn file and nothing catches it.
FleetLoad ==
    /\ fm_pc = "start"
    /\ IF fm_disk.kind = "torn"
       THEN /\ fm_pc' = "raised"
            /\ UNCHANGED <<fm_manifest, fm_i>>
       ELSE /\ fm_manifest' = fm_disk.bots
            /\ fm_i' = Len(fm_manifest')
            /\ fm_pc' = "loop"
    /\ UNCHANGED <<fm_disk, fm_run>>
    /\ UNCHANGED vars

\* main: one turn of the for loop over i.
FleetSetupBot ==
    /\ fm_pc = "loop"
    /\ fm_i < FLEET_SIZE
    /\ \E o \in FleetOutcomes :
         /\ fm_manifest' = IF o = "failed" THEN fm_manifest
                           ELSE Append(fm_manifest, FleetBot(fm_i))
         /\ fm_disk' = CASE o = "ok" -> [kind |-> "file", bots |-> fm_manifest']
                         [] o = "killed" -> [kind |-> "torn", bots |-> <<>>]
                         [] OTHER -> fm_disk
         /\ fm_pc' = IF o = "killed" THEN "killed" ELSE "loop"
         /\ fm_i' = fm_i + 1
    /\ UNCHANGED fm_run
    /\ UNCHANGED vars

\* main: the loop is over; the fleet scripts are written and main returns.
FleetFinish ==
    /\ fm_pc = "loop"
    /\ fm_i >= FLEET_SIZE
    /\ fm_pc' = "done"
    /\ UNCHANGED <<fm_manifest, fm_disk, fm_i, fm_run>>
    /\ UNCHANGED vars

\* The script is interrupted between two turns of the loop.
FleetInterrupt ==
    /\ fm_pc = "loop"
    /\ fm_pc' = "killed"
    /\ UNCHANGED <<fm_manifest, fm_disk, fm_i, fm_run>>
    /\ UNCHANGED vars

\* The script is run again: only fleet-manifest.json carries over.
FleetRerun ==
    /\ fm_pc \in {"done", "killed", "raised"}
    /\ fm_run < MaxFleetRuns
    /\ fm_run' = fm_run + 1
    /\ fm_pc' = "start"
    /\ fm_manifest' = <<>>
    /\ fm_i' = 0
    /\ UNCHANGED fm_disk
    /\ UNCHANGED vars

FleetInit == Init /\ llm_key

FleetNext ==
    \/ FleetLoad
    \/ FleetSetupBot
    \/ FleetFinish
    \/ FleetInterrupt
    \/ FleetRerun

SpecFleet == FleetInit /\ [][FleetNext]_<<vars, fleet>>


(* ------------------------------- claims ------------------------------- *)
\* The bot main() is at, and the agent it stands for.
Cur == bots[cur]

CurAgent == Cur.agent_id

\* The step is a return of run_bot_battle with True for position i.
BattleSucceeds(i) == pc = "run" /\ cur = i /\ pc' \notin Stopped /\ ret'

\* The step is a return of run_bot_battle with False.
BattleFails ==
    pc = "run" /\ last_out' \in {"nonzero", "timeout", "spawn_error"}

\* What a load of MANIFEST_FILE would give as the bots.
PersistedBots == disk.doc.bots

\* main() is between operations: no registration, battle or save under way.
Quiescent == pc \in {"boot", "boot_sleep", "cycle", "gate", "run", "delay", "cycle_sleep"}

\* C1: while the process runs, every bot's `battles` stays as it is on every
\* step except a return of True from run_bot_battle for that bot, where it
\* grows by exactly one; it never decreases.
C1_BattlesCountsSuccesses ==
    [][pc' \notin Stopped =>
         \A i \in 1..Len(bots) :
            /\ i <= Len(manifest'.bots)
            /\ manifest'.bots[i].battles =
                 bots[i].battles + (IF BattleSucceeds(i) THEN 1 ELSE 0)]_vars

C1_Witness ==
    /\ pc = "battle_save"
    /\ ret
    /\ Cur.battles = 1

\* C2: within one run, a bot is handed to run_bot_battle only when at least
\* 55 minutes have passed since its last battle of this run that exited 0.
C2_CooldownWithinRun ==
    pc = "run" /\ done_at[CurAgent] # Never /\ done_run[CurAgent] = run
        => now - done_at[CurAgent] >= COOLDOWN

C2_Witness ==
    /\ pc = "run"
    /\ done_at[CurAgent] # Never
    /\ done_run[CurAgent] = run
    /\ resp.fights_remaining > 0

\* C3: a bot is handed to run_bot_battle only on a status response that came
\* back, was a success, and reported more than zero fights remaining.
C3_RateLimitedNeverRuns ==
    pc = "run" =>
        /\ ~resp.exc
        /\ resp.ok
        /\ resp.has_data
        /\ resp.has_fights
        /\ resp.fights_remaining > 0

C3_Witness ==
    /\ pc = "gate"
    /\ skip = "rate_limited"
    /\ cur = 2
    /\ 1 \notin tried

\* C4: the registrations of a run are for the indices K, K+1, ... in order,
\* where K is the loaded fleet size; once the battle loop is reached without
\* a failure there were exactly BOT_COUNT - K of them; and after a failed
\* registration the run attempts no other.
C4_RegistrationOrder ==
    /\ [](\A k \in 1..Len(reg_log) : reg_log[k] = loaded + k - 1)
    /\ [](pc \in {"cycle", "gate", "run", "cycle_sleep"} /\ ~reg_failed /\ loaded < BOT_COUNT
            => Len(reg_log) = BOT_COUNT - loaded)
    /\ [][reg_failed /\ run' = run => reg_log' = reg_log]_vars

C4_Witness ==
    /\ pc = "cycle_sleep"
    /\ reg_failed
    /\ Len(reg_log) = 2
    /\ Len(bots) = 1

\* C5 (as claimed): load_manifest never ends the process; on a missing or
\* unparseable file it returns an empty manifest and main goes on to the
\* registration loop.
C5_LoadNeverFails ==
    [][pc = "load" /\ pc' # "killed" =>
         /\ pc' = "boot"
         /\ disk.kind # "file" => manifest'.bots = <<>>]_vars

\* C6 (as claimed): a process killed during save_manifest leaves the previous
\* or the new document in MANIFEST_FILE, never a torn one.
C6_SaveIsAtomic ==
    pc = "killed" => disk.kind # "torn"

\* C7 (as claimed): between operations the persisted bots are the bots in
\* memory, and a kill at any point leaves a readable manifest that lacks at
\* most the registration or battle under way.
C7_SaveAfterEveryMutation ==
    /\ [](Quiescent => disk.kind # "torn" /\ PersistedBots = bots)
    /\ [][pc' = "killed" /\ pc \notin Stopped /\ pc \notin {"start", "load"} =>
            /\ disk.kind # "torn"
            /\ Len(PersistedBots) <= Len(bots)
            /\ Len(bots) <= Len(PersistedBots) + 1
            /\ \A i \in 1..Len(PersistedBots) :
                  \/ PersistedBots[i] = bots[i]
                  \/ pc = "battle_save" /\ i = cur]_vars

\* C8 (as claimed): when a restarted process has loaded the manifest, the
\* remote service has created no more agents than the manifest holds.
C8_NoReRegistration ==
    run >= 1 /\ pc = "boot" /\ reg_log = <<>> => remote <= Len(bots)

\* C9 (as claimed): after a restart, a bot whose battle exited 0 in an earlier
\* run is handed to run_bot_battle only when 55 minutes have passed since.
C9_CooldownAcrossRestart ==
    pc = "run" /\ done_at[CurAgent] # Never /\ done_run[CurAgent] < run
        => now - done_at[CurAgent] >= COOLDOWN

\* C9 (amended): ... a bot whose battle exited 0 in an earlier run, and whose
\* record of it was saved before that run ended, is handed to run_bot_battle
\* only when 55 minutes have passed since.
C9_CooldownAcrossRestartSaved ==
    pc = "run" /\ done_at[CurAgent] # Never /\ done_run[CurAgent] < run
               /\ CurAgent \in durable
        => now - done_at[CurAgent] >= COOLDOWN

C9_Witness ==
    /\ run >= 1
    /\ skip = "recently"
    /\ cur >= 2
    /\ bots[cur - 1].agent_id \in durable
    /\ done_run[bots[cur - 1].agent_id] < run
    /\ now - done_at[bots[cur - 1].agent_id] < COOLDOWN

\* C10: when run_bot_battle ends by a timeout, a non-zero exit or an error of
\* subprocess.run, it returns False, the manifest in memory and on disk stay
\* as they were, main sleeps and moves to the next bot, and no bot is handed
\* to run_bot_battle twice in one cycle.
C10_FailedBattleChangesNothing ==
    /\ [][BattleFails =>
            /\ ~ret'
            /\ manifest' = manifest
            /\ disk' = disk
            /\ pc' = "delay"]_vars
    /\ [][pc = "delay" /\ ~ret /\ pc' \notin Stopped =>
            /\ manifest' = manifest
            /\ disk' = disk
            /\ cur' = cur + 1
            /\ pc' \in {"gate", "cycle_sleep"}]_vars
    /\ [](pc = "run" => cur \notin tried)

C10_Witness ==
    /\ pc = "gate"
    /\ cur = 2
    /\ 1 \in tried
    /\ bots[1].last_battle = None
    /\ bots[1].battles = 0

\* C11: a return of True from run_bot_battle leaves the bot's last_battle at
\* the time of the return and its battles one higher, and main goes to
\* save_manifest; from there it reaches the 5 s sleep, and so the next bot's
\* checks, only through the write, and at the sleep MANIFEST_FILE holds the
\* manifest with that update.
C11_SavedBeforeDelay ==
    /\ [][pc = "run" /\ last_out' = "exit0" =>
            /\ manifest'.bots[cur].last_battle = isoformat(now')
            /\ fromisoformat(manifest'.bots[cur].last_battle) = now'
            /\ manifest'.bots[cur].battles = Cur.battles + 1
            /\ pc' = "battle_save"]_vars
    /\ [][(pc = "battle_save" \/ pc = "battle_write")
            => pc' \in ({"battle_write", "delay"} \cup Stopped)]_vars
    /\ [](pc = "delay" /\ ret =>
            /\ disk = File(manifest)
            /\ PersistedBots[cur].last_battle = isoformat(done_at[CurAgent])
            /\ PersistedBots[cur].battles >= 1)

C11_Witness ==
    /\ pc = "delay"
    /\ ret
    /\ cur = 1
    /\ Len(bots) = 2
    /\ PersistedBots[1].battles = 1
    /\ PersistedBots[2].battles = 0

\* C12: in memory and in MANIFEST_FILE, the bot at position p has index
\* p - 1 and carries an agent_id and an api_key; while a process runs its
\* manifest keeps every bot it has, in place, and is never shorter than what
\* it loaded, and a file written is never shorter than the file it replaces;
\* a registration appends one record, with battles 0 and last_battle None.
C12_ManifestShape ==
    /\ [](\A p \in 1..Len(bots) :
            /\ bots[p].index = p - 1
            /\ bots[p].agent_id \in AgentIds
            /\ bots[p].api_key \in AgentIds)
    /\ [](\A p \in 1..Len(PersistedBots) :
            /\ PersistedBots[p].index = p - 1
            /\ PersistedBots[p].agent_id \in AgentIds
            /\ PersistedBots[p].api_key \in AgentIds)
    /\ [](pc \notin (Stopped \cup {"start", "load"}) => Len(bots) >= loaded)
    /\ [][pc' \notin Stopped =>
            /\ Len(manifest'.bots) >= Len(bots)
            /\ \A p \in 1..Len(bots) :
                  manifest'.bots[p].agent_id = bots[p].agent_id]_vars
    /\ [][disk'.kind = "file" /\ disk' # disk =>
            /\ Len(disk'.doc.bots) >= loaded
            /\ Len(disk'.doc.bots) >= Len(PersistedBots)]_vars
    /\ [][pc = "boot" /\ pc' = "boot_save" =>
            /\ Len(manifest'.bots) = Len(bots) + 1
            /\ manifest'.bots[Len(bots) + 1].index = Len(bots)
            /\ manifest'.bots[Len(bots) + 1].battles = 0
            /\ manifest'.bots[Len(bots) + 1].last_battle = None]_vars

C12_Witness ==
    /\ pc = "boot_save"
    /\ run = 1
    /\ loaded = 1
    /\ Len(bots) = 2
    /\ bots[1].battles = 1
    /\ bots[2].battles = 0

\* The bot whose checks ended in the `continue` the for loop took last.
Skipped == bots[cur - 1]

\* The cool-down rule: no last_battle, or one at least 55 minutes old.
CooledDown(bot) ==
    bot.last_battle = None \/ now - fromisoformat(bot.last_battle) >= COOLDOWN

\* C13: a bot is handed to run_bot_battle exactly when its status response
\* reports fights remaining and its last_battle is None or at least 55
\* minutes old: a bot skipped as rate limited had no fights reported, a bot
\* skipped as battled recently had fights but a last_battle younger than 55
\* minutes, and a bot handed over had both.
C13_EligibleIsRun ==
    /\ skip = "rate_limited" => remaining = 0
    /\ skip = "recently" => remaining > 0 /\ ~CooledDown(Skipped)
    /\ pc = "run" => remaining > 0 /\ CooledDown(Cur)
    /\ pc \in {"gate", "cycle_sleep"} /\ skip = "none" /\ cur >= 2 => (cur - 1) \in tried

C13_Witness ==
    /\ pc = "run"
    /\ cur = 2
    /\ remaining > 0
    /\ Cur.last_battle # None
    /\ now - fromisoformat(Cur.last_battle) = COOLDOWN
    /\ skip = "none"

\* The checks of main's for loop have just been made on the bot at p.
JustEvaluated(p) ==
    \/ pc = "run" /\ cur = p
    \/ pc \in {"gate", "cycle_sleep"} /\ skip # "none" /\ cur = p + 1

\* C14 (as claimed): within a cycle the bots are checked in manifest order,
\* each once, and the cycle ends only when all were checked; no step of a
\* running process moves or drops a bot; and every cycle that begins checks
\* every bot, whatever the remote calls and the battles of the bots before
\* it end as, unless the process is killed or cannot write MANIFEST_FILE;
\* every sleep after a cycle is followed by the next `while True` turn.
C14_EveryBotEveryCycle ==
    /\ [](\A k \in 1..Len(visits) : visits[k] = k)
    /\ [](pc = "gate" => Len(visits) = cur - 1)
    /\ [](pc \in {"run", "battle_save", "battle_write", "delay"} => Len(visits) = cur)
    /\ [](pc = "cycle_sleep" => Len(visits) = Len(bots))
    /\ [][pc' \notin Stopped /\ pc \notin {"load", "boot"} =>
            /\ Len(manifest'.bots) = Len(bots)
            /\ \A p \in 1..Len(bots) : manifest'.bots[p].index = bots[p].index]_vars
    /\ \A p \in 1..BOT_COUNT :
          (pc = "cycle" /\ cycles < MaxCycles /\ p <= Len(bots))
              ~> (JustEvaluated(p) \/ pc = "killed" \/ raised_by = "save")
    /\ (pc = "cycle_sleep") ~> (pc = "cycle" \/ pc = "killed")

\* C15 (as claimed): no exception leaves main from register_bot, from
\* check_rate_limit or from run_bot_battle, the writing of the bot's config
\* file included: a process that ended by an exception ended in
\* load_manifest or in save_manifest.
C15_RemoteFailuresAbsorbed ==
    pc = "raised" => raised_by \in {"load", "save"}

\* C16: a process started without DEEPSEEK_API_KEY and OPENROUTER_API_KEY
\* goes from its start to sys.exit(1) and nowhere else: it has no manifest
\* in memory, has called register_bot for no index, and no step of it
\* changes MANIFEST_FILE, the agents the service has created or the number
\* of battles run.
C16_NoKeyNoEffect ==
    /\ [](~llm_key =>
            /\ pc \in {"start", "exited", "killed"}
            /\ manifest = NoDoc
            /\ reg_log = <<>>
            /\ visits = <<>>)
    /\ [][~llm_key =>
            /\ disk' = disk
            /\ remote' = remote
            /\ attempts' = attempts]_vars
    /\ [][~llm_key /\ pc = "start" /\ pc' # "killed" => pc' = "exited"]_vars

C16_Witness ==
    /\ ~llm_key
    /\ pc = "exited"
    /\ run = 1
    /\ remote = 2
    /\ disk.kind = "file"
    /\ Len(PersistedBots) = 2

\* C17: an error of open() or json.dump in save_manifest ends the process
\* with the exception: after it main registers nothing, checks no bot and
\* holds no manifest; and main is at the sleep that follows a save only when
\* MANIFEST_FILE holds the manifest it has in memory.
C17_SaveFailureIsFatal ==
    /\ raised_by = "save" => pc = "raised" /\ manifest = NoDoc /\ cur = 0
    /\ pc = "boot_sleep" => disk = File(manifest)
    /\ pc = "delay" /\ ret => disk = File(manifest)

C17_Witness ==
    /\ pc = "raised"
    /\ raised_by = "save"
    /\ attempts = 1
    /\ disk.kind = "file"
    /\ Len(PersistedBots) = 2
    /\ PersistedBots[1].battles = 0
    /\ done_at[PersistedBots[1].agent_id] # Never

\* main is in the battle loop.
Cycling ==
    pc \in {"cycle", "gate", "run", "battle_save", "battle_write", "delay", "cycle_sleep"}

\* C18: when register_bot returns None, main leaves the registration loop
\* for the battle loop with the manifest in memory and MANIFEST_FILE as
\* they were; a process that had a registration fail and has not been
\* stopped since is in the battle loop, with no fewer bots than it loaded.
C18_RegistrationFailureNotFatal ==
    /\ [][pc = "boot" /\ ~reg_failed /\ reg_failed' =>
            /\ pc' = "cycle"
            /\ manifest' = manifest
            /\ disk' = disk]_vars
    /\ [](reg_failed /\ raised_by = "none" /\ pc # "killed"
            => Cycling /\ Len(bots) >= loaded)

C18_Witness ==
    /\ pc = "cycle_sleep"
    /\ reg_failed
    /\ cycles = 1
    /\ Len(bots) = 0
    /\ reg_log = <<0>>

\* C19: a return of run_bot_battle, True or False, after exit 0, another
\* exit status, a timeout or an error of subprocess.run, is followed by
\* time.sleep(5) before the for loop moves on (after the save, when there is
\* one); a bot skipped by either check costs no time; the for loop ends in
\* time.sleep(600), and only after it does the next cycle begin.
C19_DelayAfterEveryBattle ==
    /\ [][pc = "run" /\ pc' \notin Stopped =>
            /\ pc' = (IF ret' THEN "battle_save" ELSE "delay")
            /\ cur' = cur]_vars
    /\ [][pc = "battle_write" /\ pc' \notin Stopped => pc' = "delay" /\ cur' = cur]_vars
    /\ [][pc = "delay" /\ pc' \notin Stopped =>
            /\ now' = now + BOT_DELAY
            /\ cur' = cur + 1
            /\ pc' = (IF cur' > Len(bots) THEN "cycle_sleep" ELSE "gate")]_vars
    /\ [][pc = "gate" /\ pc' \notin (Stopped \cup {"run"}) =>
            /\ now' = now
            /\ cur' = cur + 1
            /\ pc' = (IF cur' > Len(bots) THEN "cycle_sleep" ELSE "gate")]_vars
    /\ [][pc = "cycle_sleep" /\ pc' \notin Stopped =>
            /\ pc' = "cycle"
            /\ now' >= now + CYCLE_SLEEP]_vars
    /\ [][pc' = "gate" /\ cur' = 1 => pc = "cycle"]_vars

C19_Witness ==
    /\ pc = "gate"
    /\ cur = 2
    /\ tried = {1}
    /\ run = 0
    /\ cycles = 1
    /\ now = 2 * REG_SLEEP + BATTLE_TIMEOUT + BOT_DELAY

\* The ids of the set-up script's bots are the positions, counted from 0.
FleetIdsInPlace(b) == \A p \in 1..Len(b) : b[p].id = p - 1

FleetIdsUnique(b) == \A p, q \in 1..Len(b) : p # q => b[p].id # b[q].id

\* C20 (as claimed): in fleet-manager.py, over any runs of the script and
\* any failures, the bot at position p of the manifest has id p (from 0), so
\* no id occurs twice, in memory and in fleet-manifest.json.
C20_FleetIdsContiguous ==
    /\ FleetIdsInPlace(fm_manifest)
    /\ FleetIdsUnique(fm_manifest)
    /\ FleetIdsInPlace(fm_disk.bots)
    /\ FleetIdsUnique(fm_disk.bots)

\* last_battle is None exactly when battles is 0, for every bot of b.
NullIffZero(b) ==
    \A p \in 1..Len(b) : (b[p].last_battle = None) <=> (b[p].battles = 0)

\* C21: for every bot, in memory and in MANIFEST_FILE, last_battle is None
\* exactly when battles is 0; and a step of a running process changes a
\* bot's last_battle exactly when it changes its battles.
C21_LastBattleIffBattled ==
    /\ [](NullIffZero(bots))
    /\ [](NullIffZero(PersistedBots))
    /\ [][pc' \notin Stopped =>
            \A p \in 1..Len(bots) :
               (manifest'.bots[p].last_battle # bots[p].last_battle)
                  <=> (manifest'.bots[p].battles # bots[p].battles)]_vars

C21_Witness ==
    /\ run = 1
    /\ pc = "delay"
    /\ ret
    /\ cur = 1
    /\ Len(PersistedBots) = 2
    /\ PersistedBots[1].battles = 2
    /\ PersistedBots[1].last_battle = isoformat(now)
    /\ PersistedBots[2].battles = 0
    /\ PersistedBots[2].last_battle = None

====
